---------------------------- MODULE Spec2Model ----------------------------
(***************************************************************************)
(* Model of export_master_artwork.jsx: the layer-by-layer PNG export of an *)
(* Illustrator document, with the cut-contour hide/restore traversal, the  *)
(* size lookup, the bounds aggregation and the packaging tail of the run.  *)
(*                                                                         *)
(* Strings are sequences of one-character strings, so that trimming,       *)
(* lower-casing, substring search and the two regular expressions are      *)
(* computed as the script computes them.  Lengths in points are kept in    *)
(* hundredths of a point (85.04pt is 8504).                                *)
(***************************************************************************)
EXTENDS Integers, Sequences, FiniteSets, TLC

(***************************************************************************)
(* Bounds of the model.                                                    *)
(***************************************************************************)
MaxLayers == 2      \* layers of a document in Spec
MaxItems == 2       \* page items of a document in Spec
MaxTreeItems == 3   \* page items of the single layer in TreeSpec/BoundsSpec
MaxNameLen == 3     \* length of the generated layer names in ResolveSpec

(***************************************************************************)
(* Strings.                                                                *)
(***************************************************************************)
Digits == {"0","1","2","3","4","5","6","7","8","9"}

Whitespace == {" ", "\t"}

DigitValue(c) ==
    CASE c = "0" -> 0 [] c = "1" -> 1 [] c = "2" -> 2 [] c = "3" -> 3
      [] c = "4" -> 4 [] c = "5" -> 5 [] c = "6" -> 6 [] c = "7" -> 7
      [] c = "8" -> 8 [] c = "9" -> 9

\* String.prototype.toLowerCase on ASCII letters
LowerChar(c) ==
    CASE c = "A" -> "a" [] c = "B" -> "b" [] c = "C" -> "c" [] c = "D" -> "d"
      [] c = "E" -> "e" [] c = "F" -> "f" [] c = "G" -> "g" [] c = "H" -> "h"
      [] c = "I" -> "i" [] c = "J" -> "j" [] c = "K" -> "k" [] c = "L" -> "l"
      [] c = "M" -> "m" [] c = "N" -> "n" [] c = "O" -> "o" [] c = "P" -> "p"
      [] c = "Q" -> "q" [] c = "R" -> "r" [] c = "S" -> "s" [] c = "T" -> "t"
      [] c = "U" -> "u" [] c = "V" -> "v" [] c = "W" -> "w" [] c = "X" -> "x"
      [] c = "Y" -> "y" [] c = "Z" -> "z"
      [] OTHER -> c

ToLowerCase(s) == [k \in 1..Len(s) |-> LowerChar(s[k])]

\* s.indexOf(p) >= 0
Contains(s, p) ==
    \E k \in 0..(Len(s) - Len(p)) : SubSeq(s, k + 1, k + Len(p)) = p

AllDigits(s) == Len(s) > 0 /\ \A k \in 1..Len(s) : s[k] \in Digits

\* name.replace(/^\s+|\s+$/g, '')
RECURSIVE TrimLeft(_)
TrimLeft(s) ==
    IF Len(s) > 0 /\ Head(s) \in Whitespace THEN TrimLeft(Tail(s)) ELSE s

RECURSIVE TrimRight(_)
TrimRight(s) ==
    IF Len(s) > 0 /\ s[Len(s)] \in Whitespace
    THEN TrimRight(SubSeq(s, 1, Len(s) - 1))
    ELSE s

Trim(s) == TrimRight(TrimLeft(s))

\* parseFloat on a string of decimal digits
RECURSIVE ParseFloat(_)
ParseFloat(s) ==
    IF Len(s) = 0 THEN 0
    ELSE 10 * ParseFloat(SubSeq(s, 1, Len(s) - 1)) + DigitValue(s[Len(s)])

\* the value `undefined` where a string is expected, and where a number is
Undefined == <<"#undefined">>

NaN == 0 - 1

\* string concatenation converts undefined to the text "undefined"
ToText(v) ==
    IF v = Undefined THEN <<"u","n","d","e","f","i","n","e","d">> ELSE v

(***************************************************************************)
(* CONFIG.sizeMapping and the size resolution of exportByLayers.           *)
(***************************************************************************)
Entry(g, w, h) == [sizeGroup |-> g, bleedWidth |-> w, bleedHeight |-> h]

sizeMapping ==
    ( <<"3","5">>     :> Entry(<<"7","9","x","9","0">>, 8504, 9567)
   @@ <<"5","5">>     :> Entry(<<"7","9","x","9","1">>, 8504, 9709)
   @@ <<"7","5">>     :> Entry(<<"7","9","x","9","4">>, 8504, 9921)
   @@ <<"1","0","0">> :> Entry(<<"7","9","x","9","5">>, 8504, 10063)
   @@ <<"1","3","0">> :> Entry(<<"7","9","x","9","8">>, 8504, 10346)
   @@ <<"1","8","0">> :> Entry(<<"7","9","x","1","0","1">>, 8504, 10630)
   @@ <<"5","4","x","7","2">> :> Entry(<<"5","4","x","7","2">>, 5700, 7500)
   @@ <<"t","o","p","l","o","a","d","e","r","-","n","a","r","r","o","w">>
                      :> Entry(<<"5","4","x","7","2">>, 5700, 7500)
   @@ <<"7","6","x","1","0","2">>
                      :> Entry(<<"7","6","x","1","0","2">>, 7900, 10500)
   @@ <<"6","4","x","7","9">> :> Entry(<<"6","4","x","7","9">>, 6700, 8200)
   @@ <<"t","o","p","l","o","a","d","e","r","-","w","i","d","e">>
                      :> Entry(<<"7","6","x","1","0","2">>, 7900, 10500) )

\* Properties every object literal inherits from Object.prototype: the
\* bracket lookup CONFIG.sizeMapping[layerName] finds them too.
ObjectPrototype ==
    { <<"c","o","n","s","t","r","u","c","t","o","r">>,
      <<"t","o","S","t","r","i","n","g">>,
      <<"v","a","l","u","e","O","f">>,
      <<"h","a","s","O","w","n","P","r","o","p","e","r","t","y">> }

\* An inherited property is a function object: truthy, and without the
\* fields sizeGroup, bleedWidth, bleedHeight.
InheritedFunction ==
    [sizeGroup |-> Undefined, bleedWidth |-> NaN, bleedHeight |-> NaN]

NoMapping == [sizeGroup |-> Undefined, bleedWidth |-> 0, bleedHeight |-> 0]

\* var mapping = CONFIG.sizeMapping[layerName];  if (mapping) ...
LookupTruthy(layerName) ==
    layerName \in DOMAIN sizeMapping \/ layerName \in ObjectPrototype

Lookup(layerName) ==
    IF layerName \in DOMAIN sizeMapping THEN sizeMapping[layerName]
    ELSE IF layerName \in ObjectPrototype THEN InheritedFunction
    ELSE NoMapping

\* layerName.match(/^\d+x\d+$/)
MatchesWxH(s) ==
    \E k \in 1..Len(s) :
        /\ s[k] = "x"
        /\ AllDigits(SubSeq(s, 1, k - 1))
        /\ AllDigits(SubSeq(s, k + 1, Len(s)))

\* layerName.split('x') of a name that matched: parts[0] and parts[1]
SplitX(s) ==
    LET k == CHOOSE k \in 1..Len(s) : s[k] = "x"
    IN  <<SubSeq(s, 1, k - 1), SubSeq(s, k + 1, Len(s))>>

\* layerName.match(/^\d+$/)
MatchesNumeric(s) == AllDigits(s)

\* The branch of exportByLayers taken for a trimmed layer name: "mapping"
\* and "wxh" go on to export, "unmapped" pushes a SKIPPED line, "ignored"
\* continues silently.
ResolveSize(layerName) ==
    IF LookupTruthy(layerName)
    THEN [branch      |-> "mapping",
          outputName  |-> Lookup(layerName).sizeGroup,
          bleedWidth  |-> Lookup(layerName).bleedWidth,
          bleedHeight |-> Lookup(layerName).bleedHeight]
    ELSE IF MatchesWxH(layerName)
    THEN [branch      |-> "wxh",
          outputName  |-> layerName,
          bleedWidth  |-> (ParseFloat(SplitX(layerName)[1]) + 6) * 100,
          bleedHeight |-> (ParseFloat(SplitX(layerName)[2]) + 6) * 100]
    ELSE IF MatchesNumeric(layerName)
    THEN [branch      |-> "unmapped",
          outputName  |-> Undefined,
          bleedWidth  |-> NaN,
          bleedHeight |-> NaN]
    ELSE [branch      |-> "ignored",
          outputName  |-> Undefined,
          bleedWidth  |-> NaN,
          bleedHeight |-> NaN]

(***************************************************************************)
(* CONFIG.cutContourPatterns and the cut-contour classifier.               *)
(***************************************************************************)
cutContourPatterns ==
    <<
       <<"c","u","t","c","o","n","t","o","u","r">>,
       <<"c","u","t"," ","c","o","n","t","o","u","r">>,
       <<"d","i","e","l","i","n","e">>,
       <<"d","i","e"," ","l","i","n","e">>,
       <<"d","i","e","c","u","t">>,
       <<"d","i","e"," ","c","u","t">>,
       <<"k","i","s","s"," ","c","u","t">>,
       <<"k","i","s","s","c","u","t">>,
       <<"c","o","n","t","o","u","r">>,
       <<"t","h","r","u","-","c","u","t">>,
       <<"t","h","r","u"," ","c","u","t">>,
       <<"t","h","r","o","u","g","h","c","u","t">>,
       <<"t","h","r","o","u","g","h"," ","c","u","t">>,
       <<"p","e","r","f">>,
       <<"s","c","o","r","e">>
    >>

isCutContourName(name) ==
    IF name = <<>> THEN FALSE
    ELSE \E p \in 1..Len(cutContourPatterns) :
             Contains(ToLowerCase(name), cutContourPatterns[p])

\* Colour values of an item.  NoColor is a missing (falsy) colour; reading
\* FaultColor raises a script error.
NoColor == [typename |-> "NoColor", spotName |-> <<>>]

FaultColor == [typename |-> "fault", spotName |-> <<>>]

RGBColor == [typename |-> "RGBColor", spotName |-> <<>>]

SpotColor(n) == [typename |-> "SpotColor", spotName |-> n]

\* if (item.stroked && item.strokeColor) { ... SpotColor ... spot.name ... }
\* for one of the two paints: "true" (return true), "next" (fall through to
\* the next statement) or "throw".
PaintCheck(painted, color) ==
    IF ~painted THEN "next"
    ELSE IF color.typename = "fault" THEN "throw"
    ELSE IF color.typename = "NoColor" THEN "next"
    ELSE IF color.typename = "SpotColor" /\ isCutContourName(color.spotName)
    THEN "true"
    ELSE "next"

IsPathLike(item) ==
    item.typename = "PathItem" \/ item.typename = "CompoundPathItem"

\* the body of the try block of shouldHideItem
ColorChecks(item) ==
    IF ~IsPathLike(item) THEN "next"
    ELSE IF PaintCheck(item.stroked, item.strokeColor) # "next"
    THEN PaintCheck(item.stroked, item.strokeColor)
    ELSE PaintCheck(item.filled, item.fillColor)

\* the try block without its catch: the error leaves the function
CatchNothing(outcome) == outcome

\* try { ... } catch (e) {}
Catch(outcome) == IF outcome = "throw" THEN "next" ELSE outcome

\* "true", "false", or "throw" when a script error leaves the function
shouldHideItem(item) ==
    IF item.name # <<>> /\ isCutContourName(item.name) THEN "true"
    ELSE IF Catch(ColorChecks(item)) # "next" THEN Catch(ColorChecks(item))
    ELSE IF item.typename = "GroupItem"
            /\ item.name # <<>> /\ isCutContourName(item.name)
    THEN "true"
    ELSE "false"

(***************************************************************************)
(* The item tree.  items is a sequence of item records; items[k].parent is *)
(* 0 for a page item directly on layer items[k].layer, and otherwise the   *)
(* index of the enclosing GroupItem.  f \in SeqIdx -> BOOLEAN are the      *)
(* hidden flags.                                                           *)
(***************************************************************************)
Indices(its) == [k \in 1..Len(its) |-> k]

\* layer.pageItems
LayerPageItems(its, l) ==
    SelectSeq(Indices(its),
              LAMBDA k : its[k].parent = 0 /\ its[k].layer = l)

\* group.pageItems
GroupPageItems(its, g) ==
    SelectSeq(Indices(its), LAMBDA k : its[k].parent = g)

\* the loop body without "if (item.hidden) continue;"
HideVisitHidden(its, k, st) ==
    IF shouldHideItem(its[k]) = "true"
    THEN [st |-> [hidden |-> [st.hidden EXCEPT ![k] = TRUE],
                  ledger |-> Append(st.ledger, k)],
          recurse |-> FALSE]
    ELSE [st |-> st, recurse |-> its[k].typename = "GroupItem"]

\* the loop body without the "continue;" after a group is hidden
HideVisitDescend(its, k, st) ==
    IF st.hidden[k] THEN [st |-> st, recurse |-> FALSE]
    ELSE IF shouldHideItem(its[k]) = "true"
    THEN [st |-> [hidden |-> [st.hidden EXCEPT ![k] = TRUE],
                  ledger |-> Append(st.ledger, k)],
          recurse |-> its[k].typename = "GroupItem"]
    ELSE [st |-> st, recurse |-> its[k].typename = "GroupItem"]

\* One iteration of the loop body shared by the two traversal functions:
\* st = [hidden, ledger]; the result says whether to recurse into item k.
HideVisit(its, k, st) ==
    IF st.hidden[k] THEN [st |-> st, recurse |-> FALSE]
    ELSE IF shouldHideItem(its[k]) = "true"
    THEN [st |-> [hidden |-> [st.hidden EXCEPT ![k] = TRUE],
                  ledger |-> Append(st.ledger, k)],
          recurse |-> FALSE]
    ELSE [st |-> st, recurse |-> its[k].typename = "GroupItem"]

\* the traversal of a group that looks at no member
hideNothingInGroup(its, list, st) == st

RECURSIVE hideAllCutContourItemsInGroup(_, _, _)
hideAllCutContourItemsInGroup(its, list, st) ==
    IF list = <<>> THEN st
    ELSE LET v == HideVisit(its, Head(list), st)
             after == IF v.recurse
                      THEN hideAllCutContourItemsInGroup(
                               its, GroupPageItems(its, Head(list)), v.st)
                      ELSE v.st
         IN  hideAllCutContourItemsInGroup(its, Tail(list), after)

RECURSIVE hideAllCutContourItems(_, _, _)
hideAllCutContourItems(its, list, st) ==
    IF list = <<>> THEN st
    ELSE LET v == HideVisit(its, Head(list), st)
             after == IF v.recurse
                      THEN hideAllCutContourItemsInGroup(
                               its, GroupPageItems(its, Head(list)), v.st)
                      ELSE v.st
         IN  hideAllCutContourItems(its, Tail(list), after)

RECURSIVE restoreItems(_, _)
restoreItems(hid, ledger) ==
    IF ledger = <<>> THEN hid
    ELSE restoreItems([hid EXCEPT ![Head(ledger)] = FALSE], Tail(ledger))

(***************************************************************************)
(* getLayerBounds / collectBoundsRecursive.  A box is <<left, top, right,  *)
(* bottom>>; Unreadable is a geometricBounds whose read raises an error.   *)
(***************************************************************************)
Infinity == 1000000

Unreadable == <<>>

NullBounds == <<>>

EmptyBoundsObj ==
    [left |-> Infinity, top |-> 0 - Infinity,
     right |-> 0 - Infinity, bottom |-> Infinity]

\* the four comparisons of the loop body
Extend(boundsObj, b) ==
    [left   |-> IF b[1] < boundsObj.left THEN b[1] ELSE boundsObj.left,
     top    |-> IF b[2] > boundsObj.top THEN b[2] ELSE boundsObj.top,
     right  |-> IF b[3] > boundsObj.right THEN b[3] ELSE boundsObj.right,
     bottom |-> IF b[4] < boundsObj.bottom THEN b[4] ELSE boundsObj.bottom]

RECURSIVE collectBoundsRecursive(_, _, _, _)
collectBoundsRecursive(its, hid, list, boundsObj) ==
    IF list = <<>> THEN boundsObj
    ELSE LET k == Head(list)
         IN  IF hid[k] \/ its[k].geometricBounds = Unreadable
             THEN collectBoundsRecursive(its, hid, Tail(list), boundsObj)
             ELSE collectBoundsRecursive(its, hid, Tail(list),
                      Extend(boundsObj, its[k].geometricBounds))

getLayerBounds(its, hid, l) ==
    IF Len(LayerPageItems(its, l)) = 0 THEN NullBounds
    ELSE LET boundsObj == collectBoundsRecursive(
                              its, hid, LayerPageItems(its, l), EmptyBoundsObj)
         IN  IF boundsObj.left = Infinity THEN NullBounds
             ELSE <<boundsObj.left, boundsObj.top,
                    boundsObj.right, boundsObj.bottom>>

(***************************************************************************)
(* State.                                                                  *)
(***************************************************************************)
VARIABLES
    documents,          \* app.documents.length
    layerNames,         \* doc.layers[j].name
    visible,            \* doc.layers[j].visible
    items,              \* the page items of the document (see above)
    hidden,             \* item.hidden of each page item
    artboards,          \* artboards of the document beyond the original ones
    exportFiles,        \* the doc.exportFile requests issued so far
    alerts,             \* the alert dialogs shown so far
    pc,                 \* position of the script
    i,                  \* loop variable of exportByLayers (from 1)
    originalVisibility, \* local of exportByLayers
    hiddenItems,        \* local of exportByLayers: the ledger of this layer
    contentBounds,      \* local of exportByLayers
    exported,           \* local of exportByLayers
    results,            \* local of exportByLayers
    hiddenItemsTotal,   \* local of exportByLayers
    zipCreated,         \* local of the main function
    visibleAtStart,     \* history: visible when the script started
    hiddenBefore,       \* history: hidden just before the last hide traversal
    fnArg,              \* argument of the function under test (function specs)
    fnRet               \* its result

docVars == <<documents, layerNames, visible, items, hidden, artboards>>

outVars == <<exportFiles, alerts>>

localVars == <<pc, i, originalVisibility, hiddenItems, contentBounds,
               exported, results, hiddenItemsTotal, zipCreated>>

historyVars == <<visibleAtStart, hiddenBefore>>

fnVars == <<fnArg, fnRet>>

vars == <<docVars, outVars, localVars, historyVars, fnVars>>

(***************************************************************************)
(* Documents the script is run on.                                         *)
(***************************************************************************)
PlainPath ==
    [typename |-> "PathItem", name |-> <<>>,
     stroked |-> FALSE, strokeColor |-> NoColor,
     filled |-> TRUE, fillColor |-> RGBColor]

\* an unnamed path filled with the spot colour "Die Line"
ContourPath ==
    [typename |-> "PathItem", name |-> <<>>,
     stroked |-> FALSE, strokeColor |-> NoColor,
     filled |-> TRUE,
     fillColor |-> SpotColor(<<"D","i","e"," ","L","i","n","e">>)]

PlainGroup ==
    [typename |-> "GroupItem", name |-> <<>>,
     stroked |-> FALSE, strokeColor |-> NoColor,
     filled |-> FALSE, fillColor |-> NoColor]

ContourGroup ==
    [typename |-> "GroupItem",
     name |-> <<"C","u","t","C","o","n","t","o","u","r","_","3","5">>,
     stroked |-> FALSE, strokeColor |-> NoColor,
     filled |-> FALSE, fillColor |-> NoColor]

PathKinds == {PlainPath, ContourPath}

ItemKinds == {PlainPath, ContourPath, PlainGroup, ContourGroup}

\* the geometry of the k-th page item when it is a path or an empty group
BoxOf(k) == <<1000 * k, 1000 * k + 600, 1000 * k + 800, 1000 * k>>

Hull(a, b) ==
    IF a = Unreadable THEN b
    ELSE IF b = Unreadable THEN a
    ELSE << IF a[1] < b[1] THEN a[1] ELSE b[1],
            IF a[2] > b[2] THEN a[2] ELSE b[2],
            IF a[3] > b[3] THEN a[3] ELSE b[3],
            IF a[4] < b[4] THEN a[4] ELSE b[4] >>

\* item.geometricBounds as Illustrator reports it: the own box of a path or
\* of a group without members, and for a group with members the box around
\* all the members whose geometry can be read, hidden or not.
RECURSIVE GeometricBounds(_, _, _)
RECURSIVE MembersBounds(_, _, _, _)
GeometricBounds(its, box, k) ==
    IF GroupPageItems(its, k) = <<>> THEN box[k]
    ELSE MembersBounds(its, box, GroupPageItems(its, k), Unreadable)

MembersBounds(its, box, list, acc) ==
    IF list = <<>> THEN acc
    ELSE MembersBounds(its, box, Tail(list),
                       Hull(acc, GeometricBounds(its, box, Head(list))))

\* A well-formed item sequence: parents come first and are groups, a child
\* is on its parent's layer, and the page items of the layers are listed
\* layer by layer.
WellFormed(its, nLayers) ==
    \A k \in 1..Len(its) :
        /\ its[k].parent \in 0..(k - 1)
        /\ its[k].layer \in 1..nLayers
        /\ its[k].parent # 0 =>
              /\ its[its[k].parent].attrs.typename = "GroupItem"
              /\ its[k].layer = its[its[k].parent].layer
        /\ k > 1 => its[k].layer >= its[k - 1].layer

WithGeometry(its, box) ==
    [k \in 1..Len(its) |->
        [typename |-> its[k].attrs.typename, name |-> its[k].attrs.name,
         stroked |-> its[k].attrs.stroked,
         strokeColor |-> its[k].attrs.strokeColor,
         filled |-> its[k].attrs.filled, fillColor |-> its[k].attrs.fillColor,
         parent |-> its[k].parent, layer |-> its[k].layer,
         geometricBounds |-> GeometricBounds(its, box, k)]]

\* all well-formed item sequences of length n over the given kinds
ItemSeqs(n, nLayers, kinds, maxParent) ==
    { its \in [1..n -> [attrs : kinds, parent : 0..maxParent,
                        layer : 1..nLayers]] : WellFormed(its, nLayers) }

\* layer names of the three kinds the loop tells apart
LayerNamesWide == { <<"3","5">>, <<"9","9","9">>, <<"a","b","c">> }

\* layer names for which the loop goes on to the layer's items
LayerNamesDeep ==
    { <<"3","5">>, <<" ","6","0","x","8","0"," ">>,
      <<"t","o","S","t","r","i","n","g">> }

RunLocalsInit ==
    /\ artboards = 0
    /\ exportFiles = <<>>
    /\ alerts = <<>>
    /\ pc = "start"
    /\ i = 0
    /\ originalVisibility = <<>>
    /\ hiddenItems = <<>>
    /\ contentBounds = NullBounds
    /\ exported = 0
    /\ results = <<>>
    /\ hiddenItemsTotal = 0
    /\ zipCreated = FALSE
    /\ visibleAtStart = visible
    /\ hiddenBefore = hidden
    /\ fnArg = <<>>
    /\ fnRet = <<>>

\* no document is open
InitNoDocument ==
    /\ documents = 0
    /\ layerNames = <<>>
    /\ visible = <<>>
    /\ items = <<>>
    /\ hidden = <<>>
    /\ RunLocalsInit

\* MaxLayers layers whose page items are paths directly on the layers
InitWide ==
    /\ documents = 1
    /\ layerNames \in [1..MaxLayers -> LayerNamesWide]
    /\ visible \in [1..MaxLayers -> BOOLEAN]
    /\ \E n \in 0..MaxItems :
         /\ \E its \in ItemSeqs(n, MaxLayers, PathKinds, 0) :
                items = WithGeometry(its, [k \in 1..n |-> BoxOf(k)])
         /\ hidden \in [1..n -> BOOLEAN]
    /\ RunLocalsInit

\* a visible layer with a tree of up to MaxTreeItems paths and groups,
\* followed by a visible layer without items whose name is no size
InitDeep ==
    /\ documents = 1
    /\ \E name \in LayerNamesDeep : layerNames = <<name, <<"a","b","c">> >>
    /\ visible = <<TRUE, TRUE>>
    /\ \E n \in 0..MaxTreeItems :
         /\ \E its \in ItemSeqs(n, 1, ItemKinds, n) :
                items = WithGeometry(its, [k \in 1..n |-> BoxOf(k)])
         /\ hidden \in [1..n -> BOOLEAN]
    /\ RunLocalsInit

Init == InitNoDocument \/ InitWide \/ InitDeep

(***************************************************************************)
(* The script.                                                             *)
(***************************************************************************)
Alert(kind) ==
    [kind |-> kind, exported |-> 0, hiddenItems |-> 0, details |-> <<>>,
     zipCreated |-> FALSE, pdfSaved |-> FALSE]

\* the text of a line of results, kept as its parts
Line(layerName, outcome, size) ==
    [layer |-> layerName, outcome |-> outcome,
     file |-> IF outcome = "exported"
              THEN ToText(size.outputName) \o <<".","p","n","g">>
              ELSE <<>>,
     bleedWidth |-> IF outcome = "exported" THEN size.bleedWidth ELSE NaN,
     bleedHeight |-> IF outcome = "exported" THEN size.bleedHeight ELSE NaN]

\* the size resolved for the layer the loop is at
CurrentName == Trim(layerNames[i])

CurrentSize == ResolveSize(CurrentName)

InLoop == pc = "loop" /\ i <= Len(layerNames)

\* if (app.documents.length === 0) { alert(...); return; }
NoDocument ==
    /\ pc = "start"
    /\ documents = 0
    /\ alerts' = Append(alerts, Alert("Please open a document first."))
    /\ pc' = "done"
    /\ UNCHANGED <<docVars, exportFiles, i, originalVisibility, hiddenItems,
                   contentBounds, exported, results, hiddenItemsTotal,
                   zipCreated, historyVars, fnVars>>

\* prompt() cancelled or left empty
NoProofNumber ==
    /\ pc = "start"
    /\ documents > 0
    /\ alerts' = Append(alerts, Alert("Proof number is required."))
    /\ pc' = "done"
    /\ UNCHANGED <<docVars, exportFiles, i, originalVisibility, hiddenItems,
                   contentBounds, exported, results, hiddenItemsTotal,
                   zipCreated, historyVars, fnVars>>

\* a proof number is given: the folders are made and exportByLayers starts,
\* storing the layers' visibility
StartExport ==
    /\ pc = "start"
    /\ documents > 0
    /\ exported' = 0
    /\ results' = <<>>
    /\ hiddenItemsTotal' = 0
    /\ originalVisibility' = visible
    /\ i' = 1
    /\ pc' = "loop"
    /\ UNCHANGED <<docVars, outVars, hiddenItems, contentBounds, zipCreated,
                   historyVars, fnVars>>

\* a layer whose name is no size: a SKIPPED line for a numeric name, nothing
\* for any other name
SkipLayer ==
    /\ InLoop
    /\ CurrentSize.branch \in {"unmapped", "ignored"}
    /\ results' = IF CurrentSize.branch = "unmapped"
                  THEN Append(results,
                              Line(CurrentName, "not in size mapping",
                                   CurrentSize))
                  ELSE results
    /\ i' = i + 1
    /\ UNCHANGED <<docVars, outVars, pc, originalVisibility, hiddenItems,
                   contentBounds, exported, hiddenItemsTotal, zipCreated,
                   historyVars, fnVars>>

\* a layer with a size: it becomes the only visible layer, its cut contour
\* items are hidden, and the bounds of its content are taken
HideLayer ==
    /\ InLoop
    /\ CurrentSize.branch \in {"mapping", "wxh"}
    /\ LET after == hideAllCutContourItems(
                        items, LayerPageItems(items, i),
                        [hidden |-> hidden, ledger |-> <<>>])
       IN  /\ visible' = [j \in 1..Len(layerNames) |-> j = i]
           /\ hidden' = after.hidden
           /\ hiddenItems' = after.ledger
           /\ hiddenItemsTotal' = hiddenItemsTotal + Len(after.ledger)
           /\ contentBounds' = getLayerBounds(items, after.hidden, i)
    /\ hiddenBefore' = hidden
    /\ pc' = "bounds"
    /\ UNCHANGED <<documents, layerNames, items, artboards, outVars, i,
                   originalVisibility, exported, results, zipCreated,
                   visibleAtStart, fnVars>>

\* if (!contentBounds) { restoreItems(hiddenItems); ...; continue; }
SkipEmptyLayer ==
    /\ pc = "bounds"
    /\ contentBounds = NullBounds
    /\ hidden' = restoreItems(hidden, hiddenItems)
    /\ results' = Append(results, Line(CurrentName, "empty layer", CurrentSize))
    /\ i' = i + 1
    /\ pc' = "loop"
    /\ UNCHANGED <<documents, layerNames, visible, items, artboards, outVars,
                   originalVisibility, hiddenItems, contentBounds, exported,
                   hiddenItemsTotal, zipCreated, historyVars, fnVars>>

\* the doc.exportFile request of the layer: the file, the size of the
\* temporary artboard and twice its centre
ExportRequest ==
    [file |-> ToText(CurrentSize.outputName) \o <<".","p","n","g">>,
     layer |-> i,
     bleedWidth |-> CurrentSize.bleedWidth,
     bleedHeight |-> CurrentSize.bleedHeight,
     center2 |-> <<contentBounds[1] + contentBounds[3],
                   contentBounds[2] + contentBounds[4]>>]

\* the temporary artboard is added, doc.exportFile returns, the artboard is
\* removed and the hidden items are restored
ExportLayer ==
    /\ pc = "bounds"
    /\ contentBounds # NullBounds
    /\ exportFiles' = Append(exportFiles, ExportRequest)
    /\ hidden' = restoreItems(hidden, hiddenItems)
    /\ exported' = exported + 1
    /\ results' = Append(results, Line(CurrentName, "exported", CurrentSize))
    /\ i' = i + 1
    /\ pc' = "loop"
    /\ UNCHANGED <<documents, layerNames, visible, items, artboards, alerts,
                   originalVisibility, hiddenItems, contentBounds,
                   hiddenItemsTotal, zipCreated, historyVars, fnVars>>

\* doc.exportFile raises a script error: nothing catches it, the script
\* ends where it is, with the temporary artboard still in the document
ExportFails ==
    /\ pc = "bounds"
    /\ contentBounds # NullBounds
    /\ exportFiles' = Append(exportFiles, ExportRequest)
    /\ artboards' = artboards + 1
    /\ pc' = "error"
    /\ UNCHANGED <<documents, layerNames, visible, items, hidden, alerts, i,
                   originalVisibility, hiddenItems, contentBounds, exported,
                   results, hiddenItemsTotal, zipCreated, historyVars, fnVars>>

\* exportByLayers returning without the loop that restores the visibility
FinishExportUnrestored ==
    /\ pc = "loop"
    /\ i > Len(layerNames)
    /\ alerts' = IF exported = 0
                 THEN Append(alerts, Alert("No layers found with valid size names."))
                 ELSE alerts
    /\ pc' = "returned"
    /\ UNCHANGED <<docVars, exportFiles, i, originalVisibility, hiddenItems,
                   contentBounds, exported, results, hiddenItemsTotal,
                   zipCreated, historyVars, fnVars>>

\* after the loop: the layers' visibility is put back, and exportByLayers
\* returns, after an alert when nothing was exported
FinishExport ==
    /\ pc = "loop"
    /\ i > Len(layerNames)
    /\ visible' = originalVisibility
    /\ alerts' = IF exported = 0
                 THEN Append(alerts, Alert("No layers found with valid size names."))
                 ELSE alerts
    /\ pc' = "returned"
    /\ UNCHANGED <<documents, layerNames, items, hidden, artboards,
                   exportFiles, i, originalVisibility, hiddenItems,
                   contentBounds, exported, results, hiddenItemsTotal,
                   zipCreated, historyVars, fnVars>>

\* if (result.exported > 0) is false: the main function ends
EndWithoutExports ==
    /\ pc = "returned"
    /\ exported = 0
    /\ pc' = "done"
    /\ UNCHANGED <<docVars, outVars, i, originalVisibility, hiddenItems,
                   contentBounds, exported, results, hiddenItemsTotal,
                   zipCreated, historyVars, fnVars>>

\* createZip: true or false
CreateZip ==
    /\ pc = "returned"
    /\ exported > 0
    /\ \E ok \in BOOLEAN : zipCreated' = ok
    /\ pc' = "pdf"
    /\ UNCHANGED <<docVars, outVars, i, originalVisibility, hiddenItems,
                   contentBounds, exported, results, hiddenItemsTotal,
                   historyVars, fnVars>>

\* savePDF makes every layer visible and saves (true) or catches the error
\* of doc.saveAs (false); then the main function shows the summary
SavePDF ==
    /\ pc = "pdf"
    /\ visible' = [j \in 1..Len(layerNames) |-> TRUE]
    /\ \E pdfSaved \in BOOLEAN :
         alerts' = Append(alerts,
                      [kind |-> "summary", exported |-> exported,
                       hiddenItems |-> hiddenItemsTotal, details |-> results,
                       zipCreated |-> zipCreated, pdfSaved |-> pdfSaved])
    /\ pc' = "done"
    /\ UNCHANGED <<documents, layerNames, items, hidden, artboards,
                   exportFiles, i, originalVisibility, hiddenItems,
                   contentBounds, exported, results, hiddenItemsTotal,
                   zipCreated, historyVars, fnVars>>

Next ==
    \/ NoDocument
    \/ NoProofNumber
    \/ StartExport
    \/ SkipLayer
    \/ HideLayer
    \/ SkipEmptyLayer
    \/ ExportLayer
    \/ ExportFails
    \/ FinishExport
    \/ EndWithoutExports
    \/ CreateZip
    \/ SavePDF

Spec == Init /\ [][Next]_vars

(***************************************************************************)
(* Specifications of the functions on their own: Init draws the argument,  *)
(* the one action applies the function.                                    *)
(***************************************************************************)
FnIdle ==
    /\ documents = 0
    /\ layerNames = <<>>
    /\ visible = <<>>
    /\ items = <<>>
    /\ hidden = <<>>
    /\ artboards = 0
    /\ exportFiles = <<>>
    /\ alerts = <<>>
    /\ i = 0
    /\ originalVisibility = <<>>
    /\ hiddenItems = <<>>
    /\ contentBounds = NullBounds
    /\ exported = 0
    /\ results = <<>>
    /\ hiddenItemsTotal = 0
    /\ zipCreated = FALSE
    /\ visibleAtStart = <<>>
    /\ hiddenBefore = <<>>
    /\ fnRet = <<>>
    /\ pc = "call"

fnFrame ==
    <<docVars, outVars, i, originalVisibility, hiddenItems, contentBounds,
      exported, results, hiddenItemsTotal, zipCreated, historyVars, fnArg>>

\* --- the size resolution of a layer name ---
NameAlphabet == {"3", "5", "x", " ", "a"}

RECURSIVE StringsUpTo(_)
StringsUpTo(n) ==
    IF n = 0 THEN { <<>> }
    ELSE StringsUpTo(n - 1)
         \cup { Append(s, c) : s \in StringsUpTo(n - 1), c \in NameAlphabet }

LayerNamesGiven ==
    DOMAIN sizeMapping \cup ObjectPrototype
    \cup { <<"9","9","9">>, <<"a","b","c">>, <<"6","0","x","8","0">>,
           <<" ","5","4","x","7","2"," ">>, <<"\t","1","0","0">>,
           <<"0","6","0","x","0","8","0">>, <<"5","4","X","7","2">>,
           <<"5","4","x","7","2","x","1">>, <<"3"," ","5">> }

InitResolve ==
    /\ fnArg \in StringsUpTo(MaxNameLen) \cup LayerNamesGiven
    /\ FnIdle

ResolveCall ==
    /\ pc = "call"
    /\ fnRet' = ResolveSize(Trim(fnArg))
    /\ pc' = "return"
    /\ UNCHANGED fnFrame

ResolveSpec == InitResolve /\ [][ResolveCall]_vars

\* --- the classifier ---
ItemNames ==
    { <<>>, <<"l","o","g","o">>,
      <<"C","u","t","C","o","n","t","o","u","r","_","3","5">>,
      <<"U","p","p","e","r","S","C","O","R","E">> }

Colors ==
    { NoColor, FaultColor, RGBColor, SpotColor(<<>>),
      SpotColor(<<"D","i","e"," ","L","i","n","e">>),
      SpotColor(<<"B","a","c","k","g","r","o","u","n","d">>) }

Typenames == {"PathItem", "CompoundPathItem", "GroupItem", "TextFrame"}

InitClassify ==
    /\ fnArg \in [typename : Typenames, name : ItemNames,
                  stroked : BOOLEAN, strokeColor : Colors,
                  filled : BOOLEAN, fillColor : Colors]
    /\ FnIdle

ClassifyCall ==
    /\ pc = "call"
    /\ fnRet' = shouldHideItem(fnArg)
    /\ pc' = "return"
    /\ UNCHANGED fnFrame

ClassifySpec == InitClassify /\ [][ClassifyCall]_vars

\* --- the bounds of a layer ---
Boxes == { <<0, 100, 100, 0>>, <<50, 300, 400, 200>>, Unreadable }

InitBounds ==
    /\ \E n \in 0..MaxTreeItems :
         \E its \in ItemSeqs(n, 1, {PlainPath, PlainGroup}, n) :
           \E box \in [1..n -> Boxes], hid \in [1..n -> BOOLEAN] :
              fnArg = [items |-> WithGeometry(its, box), hidden |-> hid]
    /\ FnIdle

BoundsCall ==
    /\ pc = "call"
    /\ fnRet' = getLayerBounds(fnArg.items, fnArg.hidden, 1)
    /\ pc' = "return"
    /\ UNCHANGED fnFrame

BoundsSpec == InitBounds /\ [][BoundsCall]_vars

(***************************************************************************)
(* Properties of the functions.                                            *)
(***************************************************************************)

\* C6: the size resolution maps every trimmed layer name to exactly one of
\* four outcomes: a key of the size table gives that entry; otherwise a name
\* of the form <digits>x<digits> gives the name itself with bleed width+6 by
\* height+6; otherwise a name of digits only is unrecognized (skipped with a
\* warning); every other name is ignored.  In particular no name that is not
\* a key of the table is treated as a table entry.
C6_SizeResolverFourOutcomes ==
    pc = "return" =>
        LET n == Trim(fnArg)
        IN  /\ fnRet.branch \in {"mapping", "wxh", "unmapped", "ignored"}
            /\ fnRet.branch = "mapping" <=> n \in DOMAIN sizeMapping
            /\ n \in DOMAIN sizeMapping =>
                  /\ fnRet.outputName = sizeMapping[n].sizeGroup
                  /\ fnRet.bleedWidth = sizeMapping[n].bleedWidth
                  /\ fnRet.bleedHeight = sizeMapping[n].bleedHeight
            /\ fnRet.branch = "wxh" <=>
                  n \notin DOMAIN sizeMapping /\ MatchesWxH(n)
            /\ fnRet.branch = "wxh" =>
                  /\ fnRet.outputName = n
                  /\ fnRet.bleedWidth = (ParseFloat(SplitX(n)[1]) + 6) * 100
                  /\ fnRet.bleedHeight = (ParseFloat(SplitX(n)[2]) + 6) * 100
            /\ fnRet.branch = "unmapped" <=>
                  n \notin DOMAIN sizeMapping /\ ~MatchesWxH(n) /\ AllDigits(n)
            /\ fnRet.branch = "ignored" <=>
                  n \notin DOMAIN sizeMapping /\ ~MatchesWxH(n) /\ ~AllDigits(n)

\* The colour reads of the classifier on an item, in the order it makes
\* them: the stroke is read when the name did not match and the item is a
\* stroked path, the fill when the stroke did not decide.
StrokeHit(it) ==
    /\ it.stroked
    /\ it.strokeColor.typename = "SpotColor"
    /\ isCutContourName(it.strokeColor.spotName)

FillHit(it) ==
    /\ it.filled
    /\ it.fillColor.typename = "SpotColor"
    /\ isCutContourName(it.fillColor.spotName)

NameHit(it) == isCutContourName(it.name)

FaultRaised(it) ==
    /\ it.typename \in {"PathItem", "CompoundPathItem"}
    /\ ~NameHit(it)
    /\ \/ it.stroked /\ it.strokeColor = FaultColor
       \/ ~StrokeHit(it) /\ it.filled /\ it.fillColor = FaultColor

\* C7: the classifier returns true exactly when the item's own name contains
\* one of the patterns, case-insensitively, or the item is a path or
\* compound path with a stroke or fill in a spot colour whose name contains
\* one of the patterns; a fault raised while the colours are read never
\* leaves the classifier and makes the item "not a contour item"; a group is
\* a contour item only through its own name.
C7_ClassifierDecision ==
    pc = "return" =>
        /\ fnRet \in {"true", "false"}
        /\ fnRet = "true" <=>
              \/ NameHit(fnArg)
              \/ /\ fnArg.typename \in {"PathItem", "CompoundPathItem"}
                 /\ StrokeHit(fnArg) \/ FillHit(fnArg)
                 /\ ~FaultRaised(fnArg)
        /\ FaultRaised(fnArg) => fnRet = "false"
        /\ fnArg.typename = "GroupItem" => (fnRet = "true" <=> NameHit(fnArg))
        \* the named examples: "CutContour_35", and a path in "Background"
        /\ fnArg.name = <<"C","u","t","C","o","n","t","o","u","r","_","3","5">>
              => fnRet = "true"
        /\ (/\ fnArg.typename = "PathItem" /\ fnArg.name = <<>>
            /\ fnArg.stroked /\ fnArg.filled
            /\ fnArg.strokeColor = fnArg.fillColor
            /\ fnArg.fillColor
                  = SpotColor(<<"B","a","c","k","g","r","o","u","n","d">>))
              => fnRet = "false"

\* C7 witness: an unnamed path filled with the spot colour "Die Line" is
\* classified as a contour item, with a stroke whose colour is no spot colour
C7_Witness ==
    /\ pc = "return"
    /\ fnArg.typename = "PathItem"
    /\ fnArg.name = <<>>
    /\ fnArg.stroked /\ fnArg.strokeColor = RGBColor
    /\ fnArg.filled
    /\ fnArg.fillColor = SpotColor(<<"D","i","e"," ","L","i","n","e">>)
    /\ fnRet = "true"

\* the members of the tree the claimed aggregation collects: the items that
\* are not hidden, under containers that are not hidden
RECURSIVE EffectivelyVisible(_, _, _)
EffectivelyVisible(its, hid, k) ==
    /\ ~hid[k]
    /\ its[k].parent # 0 => EffectivelyVisible(its, hid, its[k].parent)

RECURSIVE HullOfAll(_, _, _)
HullOfAll(its, ks, acc) ==
    IF ks = {} THEN acc
    ELSE LET k == CHOOSE k \in ks : TRUE
         IN  HullOfAll(its, ks \ {k}, Hull(acc, its[k].geometricBounds))

VisibleLeaves(its, hid) ==
    { k \in 1..Len(its) :
        /\ GroupPageItems(its, k) = <<>>
        /\ EffectivelyVisible(its, hid, k) }

\* C8: the bounds of a layer are the union of the boxes of exactly its
\* non-hidden items, recursing into containers, so that a hidden item inside
\* a visible group does not contribute; null when no item contributes; an
\* item whose geometry cannot be read is skipped.
C8_BoundsOfVisibleItems ==
    pc = "return" =>
        fnRet = HullOfAll(fnArg.items,
                          VisibleLeaves(fnArg.items, fnArg.hidden), NullBounds)

(***************************************************************************)
(* Properties of the run.                                                  *)
(***************************************************************************)
LastLine == results[Len(results)]

\* C1: hiding the cut contour items of a layer and then restoring the ledger
\* leaves every item's hidden flag as it was before the traversal, on the
\* path that exports the layer and on the path that skips it as empty; an
\* item hidden before the traversal is never in the ledger and stays hidden.
C1_HideRestoreRoundTrip ==
    /\ pc = "bounds" =>
          \A k \in 1..Len(items) :
              /\ hiddenBefore[k] => hidden[k]
              /\ (\E n \in 1..Len(hiddenItems) : hiddenItems[n] = k)
                    => ~hiddenBefore[k] /\ hidden[k]
    /\ pc \in {"loop", "returned", "pdf", "done"} => hidden = hiddenBefore

\* C1 witness: a layer skipped as empty after the traversal hid an item,
\* with an item that was already hidden before, and the flags back
C1_Witness ==
    /\ pc = "loop"
    /\ results # <<>>
    /\ LastLine.outcome = "empty layer"
    /\ hiddenItems # <<>>
    /\ \E k \in 1..Len(items) :
          hiddenBefore[k] /\ shouldHideItem(items[k]) = "true"
    /\ hidden = hiddenBefore

\* C2: when exportByLayers has gone through all layers, every layer's
\* visible flag is what it was before the pass, whatever path each layer
\* took.
C2_VisibilityRestoredAfterPass ==
    pc = "returned" => visible = visibleAtStart

\* C2 witness: the pass is over with an exported layer and a skipped one,
\* one layer visible before the pass and one not
C2_Witness ==
    /\ pc = "returned"
    /\ exported > 0
    /\ Len(results) > exported
    /\ \E j, l \in 1..Len(layerNames) : visibleAtStart[j] /\ ~visibleAtStart[l]
    /\ visible = visibleAtStart

\* C3: once a document is open and a proof number is given the run always
\* completes, and when it has completed every layer's visible flag is what
\* it was before the run, also for layers that were not visible and for
\* runs that exported a layer.
C3_RunRestoresVisibility ==
    pc = "done" => visible = visibleAtStart

\* C4: a failed render does not stop the run: the items hidden for the
\* layer are restored, the remaining layers are processed and the layers'
\* visibility is restored at the end of the pass.
C4_RenderFailureContained ==
    pc = "error" =>
        /\ hidden = hiddenBefore
        /\ i > Len(layerNames)
        /\ visible = visibleAtStart

\* the state in which doc.exportFile is called for layer i
AtRenderRequest == pc = "bounds" /\ contentBounds # NullBounds

\* C5: at every render request exactly one layer is visible, the one being
\* exported, and no item of it that the classifier takes for a cut contour
\* item is effectively visible (itself and every enclosing group not
\* hidden), at any nesting depth.
C5_RenderSeesNoCutContour ==
    AtRenderRequest =>
        /\ \A j \in 1..Len(layerNames) : visible[j] <=> j = i
        /\ \A k \in 1..Len(items) :
              items[k].layer = i /\ shouldHideItem(items[k]) = "true"
                  => ~EffectivelyVisible(items, hidden, k)

\* C5 witness: a render request with a second layer that was visible before,
\* and a cut contour item inside a group that the traversal hid
C5_Witness ==
    /\ AtRenderRequest
    /\ \E j \in 1..Len(layerNames) : j # i /\ visibleAtStart[j]
    /\ \E n \in 1..Len(hiddenItems) :
          /\ items[hiddenItems[n]].parent # 0
          /\ ~hiddenBefore[hiddenItems[n]]
          /\ ~hidden[items[hiddenItems[n]].parent]

\* C9: every run on an open document ends with a summary that lists the
\* outcome of every processed layer with the exported count and the number
\* of hidden items, also when no layer was exported.
C9_SummaryAlwaysShown ==
    pc = "done" /\ i > 0 =>
        \E a \in 1..Len(alerts) :
            /\ alerts[a].kind = "summary"
            /\ alerts[a].details = results
            /\ alerts[a].exported = exported
            /\ alerts[a].hiddenItems = hiddenItemsTotal

\* The resolution of a trimmed layer name as the size resolver is described:
\* a size for a key of the table or a <digits>x<digits> name, "unmapped" for
\* any other name of digits, "ignored" for the rest.
DescribedSize(n) ==
    IF n \in DOMAIN sizeMapping
    THEN [branch |-> "mapping", outputName |-> sizeMapping[n].sizeGroup,
          bleedWidth |-> sizeMapping[n].bleedWidth,
          bleedHeight |-> sizeMapping[n].bleedHeight]
    ELSE IF MatchesWxH(n)
    THEN [branch |-> "wxh", outputName |-> n,
          bleedWidth |-> (ParseFloat(SplitX(n)[1]) + 6) * 100,
          bleedHeight |-> (ParseFloat(SplitX(n)[2]) + 6) * 100]
    ELSE [branch |-> IF AllDigits(n) THEN "unmapped" ELSE "ignored",
          outputName |-> Undefined, bleedWidth |-> NaN, bleedHeight |-> NaN]

Sized(j) == DescribedSize(Trim(layerNames[j])).branch \in {"mapping", "wxh"}

\* layer j has a path directly on it that is visible and no cut contour
HasVisibleContent(j) ==
    \E k \in 1..Len(items) :
        /\ items[k].layer = j /\ items[k].parent = 0
        /\ items[k].typename = "PathItem"
        /\ ~hidden[k]
        /\ shouldHideItem(items[k]) = "false"
        /\ items[k].geometricBounds # Unreadable

\* the render requests and the lines described for layers j..Len(layerNames)
RECURSIVE DescribedRequests(_)
DescribedRequests(j) ==
    IF j > Len(layerNames) THEN <<>>
    ELSE LET size == DescribedSize(Trim(layerNames[j]))
         IN  (IF Sized(j)
              THEN << [file |-> size.outputName \o <<".","p","n","g">>,
                       layer |-> j,
                       bleedWidth |-> size.bleedWidth,
                       bleedHeight |-> size.bleedHeight] >>
              ELSE <<>>) \o DescribedRequests(j + 1)

RECURSIVE DescribedLines(_)
DescribedLines(j) ==
    IF j > Len(layerNames) THEN <<>>
    ELSE LET size == DescribedSize(Trim(layerNames[j]))
         IN  (IF Sized(j)
              THEN << Line(Trim(layerNames[j]), "exported", size) >>
              ELSE IF size.branch = "unmapped"
              THEN << Line(Trim(layerNames[j]), "not in size mapping", size) >>
              ELSE <<>>) \o DescribedLines(j + 1)

\* C10: when every layer with a size has visible content and the renders
\* succeed, the pass issues exactly one render request per layer whose name
\* is a key of the table or a <digits>x<digits> name, for the file
\* <output identifier>.png with that layer's bleed size, in document order;
\* the exported count is the number of those layers; the details hold one
\* success line per such layer and one skip line per unmapped numeric
\* layer; a layer with any other name gives no request and no line.
C10_OneRenderPerSizedLayer ==
    (/\ pc = "returned"
     /\ \A j \in 1..Len(layerNames) : Sized(j) => HasVisibleContent(j))
    =>
        /\ [r \in 1..Len(exportFiles) |->
               [file |-> exportFiles[r].file, layer |-> exportFiles[r].layer,
                bleedWidth |-> exportFiles[r].bleedWidth,
                bleedHeight |-> exportFiles[r].bleedHeight]]
              = DescribedRequests(1)
        /\ exported = Len(DescribedRequests(1))
        /\ results = DescribedLines(1)

\* item d lies inside group g, at any depth
RECURSIVE IsUnder(_, _, _)
IsUnder(its, d, g) ==
    /\ its[d].parent # 0
    /\ its[d].parent = g \/ IsUnder(its, its[d].parent, g)

InLedger(k) == \E n \in 1..Len(hiddenItems) : hiddenItems[n] = k

\* the groups the traversal of layer i has just hidden and recorded
HiddenGroups ==
    { g \in 1..Len(items) :
        items[g].typename = "GroupItem" /\ ~hiddenBefore[g] /\ InLedger(g) }

\* C11 as stated: the members of a group are evaluated whether or not the
\* group itself was hidden: when a visible group is hidden and recorded for
\* its own name, each of its visible descendants that the classifier takes
\* for a cut contour item is hidden and recorded too.
C11_MembersOfHiddenGroupHidden ==
    pc = "bounds" =>
        \A g \in HiddenGroups : \A d \in 1..Len(items) :
            (/\ IsUnder(items, d, g)
             /\ ~hiddenBefore[d]
             /\ shouldHideItem(items[d]) = "true")
                => hidden[d] /\ InLedger(d)

\* C11 as amended: the traversal descends only into groups it did not hide:
\* when a visible group is hidden and recorded for its own name, none of
\* its descendants is visited: none is recorded and each keeps its flag.
C11_MembersOfHiddenGroupUntouched ==
    pc = "bounds" =>
        \A g \in HiddenGroups : \A d \in 1..Len(items) :
            IsUnder(items, d, g) => ~InLedger(d) /\ hidden[d] = hiddenBefore[d]

\* C11 witness: a group hidden for its name, with a visible member the
\* classifier takes for a cut contour item, which is left as it was
C11_Witness ==
    /\ pc = "bounds"
    /\ \E g \in HiddenGroups : \E d \in 1..Len(items) :
          /\ items[d].parent = g
          /\ shouldHideItem(items[d]) = "true"
          /\ ~hiddenBefore[d]
          /\ ~hidden[d]
          /\ ~InLedger(d)

=============================================================================
